---- MODULE Spec2Model ----
(***************************************************************************)
(* A model of the bump-style arena allocator of src/src/lib.rs.            *)
(*                                                                         *)
(* The Arena owns a byte pool of `capacity` bytes that lives at address    *)
(* `base`, and one atomic cursor `offset`.  ArenaAllocator handles share   *)
(* the Arena through an Arc.  A request runs the loop of                   *)
(* get_aligned_memory_bounds: load the cursor, compute the aligned start   *)
(* and the end, fail or compare-exchange, retry when the exchange fails.   *)
(* The load and the compare-exchange are the two atomic steps of a         *)
(* request; everything between them is thread-local and is folded into     *)
(* the load step.  The atomics are modelled as sequentially consistent:    *)
(* there is one atomic location, a successful compare-exchange always      *)
(* reads the last value in its modification order, and a stale load only   *)
(* makes the following compare-exchange fail, which is the interleaving    *)
(* in which the load happened earlier.                                     *)
(***************************************************************************)
EXTENDS Integers, Sequences, FiniteSets, TLC

(* ------------------------------ bounds -------------------------------- *)

\* width of usize in the model
WordBits == 8
\* number of threads that may hold a handle
NumThreads == 2
\* capacities tried by Arena::new in the unscripted specification
MaxCapacity == 4
\* largest requested size in the unscripted specification
MaxSize == 2
\* alignments are 2^0 .. 2^MaxAlignLog in the unscripted specification
MaxAlignLog == 2
\* allocate calls on the Arena in the unscripted specification
MaxRequests == 3
\* allocate calls on the Arena in the specification of full-width words
WordRequests == 2
\* deallocate calls counted
MaxDeallocs == 1
\* live handles (Arc strong count)
MaxHandles == 2

(* ----------------------------- machine words --------------------------- *)

Pow2(n) == 2 ^ n

UsizeMax == Pow2(WordBits) - 1

\* an addition carried out in a word one bit narrower
WAddNarrow(a, b) == (a + b) % Pow2(WordBits - 1)

\* usize addition as a release build performs it
WAdd(a, b) == (a + b) % Pow2(WordBits)

\* usize subtraction as a release build performs it
WSub(a, b) == (a - b + Pow2(WordBits)) % Pow2(WordBits)

Threads == 1 .. NumThreads

Aligns == {Pow2(k) : k \in 0 .. MaxAlignLog}

\* std::alloc::Layout: a size and a power-of-two alignment
Layouts == [size : 0 .. MaxSize, align : Aligns]

Layout(s, a) == [size |-> s, align |-> a]

NoLayout == Layout(0, 1)

\* addresses the global allocator may return for the pool: a Box<[u8]> is
\* allocated with alignment 1, so every residue of the alignments occurs
BaseAddrs == Pow2(MaxAlignLog) .. (2 * Pow2(MaxAlignLog) - 1)

\* the address of an empty boxed slice: NonNull::dangling() of u8
DanglingAddr == 1

VARIABLES
    capacity,   \* Arena::capacity(): mem_pool.len()
    base,       \* address of mem_pool
    offset,     \* Arena::offset, the atomic cursor
    strong,     \* strong count of the Arc<Arena>
    released,   \* number of times Drop for Arena has released the pool
    handles,    \* handles[t]: ArenaAllocator values owned by thread t
    pc,         \* pc[t]: "idle", "load" (line 56) or "cas" (line 75)
    layout,     \* layout[t]: the Layout of the running request
    loc,        \* loc[t]: the locals offset, start, end of the loop body
    result,     \* result[t]: what the last allocate of thread t returned
    nreq,       \* number of allocate calls started on the Arena
    granted,    \* history: the ranges returned, in compare-exchange order
    deallocs,   \* history: number of deallocate calls
    script,     \* script[t]: the requests a scenario thread still issues
    scenario,   \* the scenario that is run, and its number of threads
    retries,    \* history: failed compare-exchanges of t's running request,
                \* counted up to RetryCap
    stale,      \* history: another request's compare-exchange changed the
                \* cursor since the load of t's running attempt
    failed      \* history: for each alignment, the layout of the smallest
                \* request that returned an error

vars == <<capacity, base, offset, strong, released, handles, pc, layout, loc,
          result, nreq, granted, deallocs, script, scenario, retries, stale,
          failed>>

arena == <<capacity, base, offset>>

hist == <<retries, stale, failed>>

\* the failed compare-exchanges of a request are counted up to one more
\* than the largest capacity
RetryCap == MaxCapacity + 1

NoLoc == [offset |-> 0, start |-> 0, end |-> 0]

\* result[t].ret is the source line of the return statement taken
NoResult == [kind |-> "none", start |-> 0, end |-> 0, ret |-> 0]

Ok(s, e) == [kind |-> "Ok", start |-> s, end |-> e, ret |-> 80]

Err(line) == [kind |-> "AllocError", start |-> 0, end |-> 0, ret |-> line]

(* ------------------------------- Arena --------------------------------- *)

\* Arena::available_space, line 39: an unsigned subtraction
available_space == WSub(capacity, offset)

\* align_offset that pads a whole alignment when the address is aligned
align_offset_full(addr, a) == a - (addr % a)

\* <*mut u8>::align_offset at run time: the bytes to the next address that
\* is a multiple of a; for a byte pointer it never yields usize::MAX
align_offset(addr, a) == (a - (addr % a)) % a

\* line 65
StartOf(off, ao) == WAdd(off, ao)

\* an end cut at the end of the pool
EndOfClamped(start, size) ==
    IF WAdd(start, size) > capacity /\ start <= capacity
    THEN capacity ELSE WAdd(start, size)

\* line 67
EndOf(start, size) == WAdd(start, size)

\* a capacity check that lets one byte too many through
ExceedsCapacityLate(end) == end > capacity + 1

\* a capacity check that refuses the last byte
ExceedsCapacityEarly(end) == end >= capacity

\* line 69
ExceedsCapacity(end) == end > capacity

\* an exchange that stores without comparing
CasAlways(expected) == TRUE

\* an exchange whose outcome is read the wrong way round
CasInverted(expected) == offset # expected

\* lines 75-78: the compare of compare_exchange
CasSucceeds(expected) == offset = expected

\* an exchange that stores the start of the range
NewCursorStart(start, end) == start

\* line 77: the value compare_exchange stores
NewCursor(start, end) == end

\* Arena::new(c) wrapped by ArenaAllocator::new: thread 1 owns the handle
NewArena(c, b) ==
    /\ capacity = c
    /\ base = b
    /\ offset = 0
    /\ strong = 1
    /\ released = 0
    /\ handles = [t \in Threads |-> IF t = 1 THEN 1 ELSE 0]
    /\ pc = [t \in Threads |-> "idle"]
    /\ layout = [t \in Threads |-> NoLayout]
    /\ loc = [t \in Threads |-> NoLoc]
    /\ result = [t \in Threads |-> NoResult]
    /\ nreq = 0
    /\ granted = <<>>
    /\ deallocs = 0
    /\ retries = [t \in Threads |-> 0]
    /\ stale = [t \in Threads |-> FALSE]
    /\ failed = {}

PoolAddrs(c) == IF c = 0 THEN {DanglingAddr} ELSE BaseAddrs

Init ==
    /\ \E c \in 0 .. MaxCapacity : \E b \in PoolAddrs(c) : NewArena(c, b)
    /\ script = [t \in Threads |-> <<>>]
    /\ scenario = [name |-> "free", n |-> 0]

\* ArenaAllocator::allocate -> get_next_mem_slice -> entry of
\* get_aligned_memory_bounds (lines 122-123, 43-44, 49-50)
Begin(t, l) ==
    /\ pc[t] = "idle"
    /\ handles[t] >= 1
    /\ pc' = [pc EXCEPT ![t] = "load"]
    /\ layout' = [layout EXCEPT ![t] = l]
    /\ result' = [result EXCEPT ![t] = NoResult]
    /\ nreq' = nreq + 1
    /\ UNCHANGED <<arena, strong, released, handles, loc, granted, deallocs,
                   hist>>

Allocate(t) ==
    /\ nreq < MaxRequests
    /\ \E l \in Layouts : Begin(t, l)
    /\ UNCHANGED <<script, scenario>>

\* the failures F with the failure of layout l: a failure is kept unless a
\* smaller or equal size has failed with the same alignment
AddFailure(F, l) ==
    IF \E f \in F : f.align = l.align /\ f.size <= l.size
    THEN F
    ELSE {f \in F : f.align # l.align} \cup {l}

\* the caller's return from the request with value r
Return(t, r) ==
    /\ pc' = [pc EXCEPT ![t] = "idle"]
    /\ layout' = [layout EXCEPT ![t] = NoLayout]
    /\ loc' = [loc EXCEPT ![t] = NoLoc]
    /\ result' = [result EXCEPT ![t] = r]
    /\ retries' = [retries EXCEPT ![t] = 0]

\* lines 56-71: the load of the cursor and the thread-local computation up
\* to the compare-exchange
Load(t) ==
    /\ pc[t] = "load"
    /\ LET off == offset
           ao == align_offset(base + off, layout[t].align)
           start == StartOf(off, ao)
           end == EndOf(start, layout[t].size)
       IN  IF ao = UsizeMax
           THEN Return(t, Err(61)) /\ failed' = AddFailure(failed, layout[t])
           ELSE IF ExceedsCapacity(end)
                THEN Return(t, Err(70)) /\ failed' = AddFailure(failed, layout[t])
                ELSE /\ pc' = [pc EXCEPT ![t] = "cas"]
                     /\ loc' = [loc EXCEPT ![t] =
                                  [offset |-> off, start |-> start, end |-> end]]
                     /\ UNCHANGED <<layout, result, retries, failed>>
    /\ stale' = [stale EXCEPT ![t] = FALSE]
    /\ UNCHANGED <<arena, strong, released, handles, nreq, granted, deallocs,
                   script, scenario>>

\* lines 75-81: the compare-exchange; success returns (start, end), failure
\* goes round the loop
CompareExchange(t) ==
    /\ pc[t] = "cas"
    /\ IF CasSucceeds(loc[t].offset)
       THEN /\ offset' = NewCursor(loc[t].start, loc[t].end)
            /\ granted' = Append(granted,
                   [thread |-> t, start |-> loc[t].start, end |-> loc[t].end,
                    size |-> layout[t].size, align |-> layout[t].align,
                    seen |-> loc[t].offset])
            /\ Return(t, Ok(loc[t].start, loc[t].end))
            /\ stale' = [u \in Threads |->
                            IF u = t THEN FALSE
                            ELSE stale[u] \/ (pc[u] = "cas" /\ offset' # offset)]
       ELSE /\ pc' = [pc EXCEPT ![t] = "load"]
            /\ loc' = [loc EXCEPT ![t] = NoLoc]
            /\ retries' = [retries EXCEPT ![t] =
                              IF @ < RetryCap THEN @ + 1 ELSE @]
            /\ stale' = [stale EXCEPT ![t] = FALSE]
            /\ UNCHANGED <<offset, granted, layout, result>>
    /\ UNCHANGED <<capacity, base, strong, released, handles, nreq, deallocs,
                   script, scenario, failed>>

(* --------------------------- ArenaAllocator ---------------------------- *)

\* a deallocate that gives the last granted range back
DeallocateReclaim(t) ==
    /\ handles[t] >= 1
    /\ deallocs < MaxDeallocs
    /\ deallocs' = deallocs + 1
    /\ offset' = IF granted = <<>> THEN offset ELSE granted[Len(granted)].start
    /\ UNCHANGED <<capacity, base, strong, released, handles, pc, layout, loc,
                   result, nreq, granted, script, scenario, hist>>

\* ArenaAllocator::deallocate, line 126: an empty body, whatever the
\* pointer (into the pool or not) and the layout are: _ptr and _layout are
\* unused, so the step has no input that matters
Deallocate(t) ==
    /\ handles[t] >= 1
    /\ deallocs < MaxDeallocs
    /\ deallocs' = deallocs + 1
    /\ UNCHANGED <<arena, strong, released, handles, pc, layout, loc, result,
                   nreq, granted, script, scenario, hist>>

\* #[derive(Clone)], line 104: Arc::clone; the clone is moved to thread u
Clone(t, u) ==
    /\ handles[t] >= 1
    /\ strong < MaxHandles
    /\ strong' = strong + 1
    /\ handles' = [handles EXCEPT ![u] = @ + 1]
    /\ UNCHANGED <<arena, released, pc, layout, loc, result, nreq, granted,
                   deallocs, script, scenario, hist>>

\* a drop that releases the pool with every handle
DropOwning(t) ==
    /\ handles[t] >= (IF pc[t] = "idle" THEN 1 ELSE 2)
    /\ strong' = strong - 1
    /\ handles' = [handles EXCEPT ![t] = @ - 1]
    /\ released' = released + 1
    /\ UNCHANGED <<arena, pc, layout, loc, result, nreq, granted, deallocs,
                   script, scenario, hist>>

\* drop of an ArenaAllocator: Arc::drop, and Drop for Arena (lines 95-101)
\* when the strong count reaches zero.  A running request borrows the
\* handle it was called on.
Drop(t) ==
    /\ handles[t] >= (IF pc[t] = "idle" THEN 1 ELSE 2)
    /\ strong' = strong - 1
    /\ handles' = [handles EXCEPT ![t] = @ - 1]
    /\ released' = IF strong = 1 THEN released + 1 ELSE released
    /\ UNCHANGED <<arena, pc, layout, loc, result, nreq, granted, deallocs,
                   script, scenario, hist>>

Next ==
    \/ \E t \in Threads : Allocate(t)
    \/ \E t \in Threads : Load(t)
    \/ \E t \in Threads : CompareExchange(t)
    \/ \E t \in Threads : Deallocate(t)
    \/ \E t, u \in Threads : Clone(t, u)
    \/ \E t \in Threads : Drop(t)

Spec == Init /\ [][Next]_vars

(* ------------------------------ scenarios ------------------------------ *)

\* pool addresses of the scenarios: every residue modulo 8
ScenarioAddrs == 8 .. 15

\* the requests of Scenario A, with the one that follows them
ScriptA == <<Layout(1, 1), Layout(1, 1), Layout(4, 4), Layout(1, 1)>>

\* the three requests each thread of Scenario B performs
ScriptB == <<Layout(1, 1), Layout(1, 1), Layout(4, 4)>>

\* the request of Scenario C
ScriptC == <<Layout(1, 8)>>

\* test::spawn_allocating_thread, lines 160-161: a Vec<u8> of capacity 2
\* and a Vec<u32> of capacity 1
ScriptT == <<Layout(2, 1), Layout(4, 4)>>

\* bytes of pool per thread in test::allocation, line 139
BytesPerThread == 9

\* the handles of a scenario: threads 1 .. n each own one clone
ScenarioArena(name, n, c, b, s) ==
    /\ capacity = c
    /\ base = b
    /\ offset = 0
    /\ strong = n
    /\ released = 0
    /\ handles = [t \in Threads |-> IF t <= n THEN 1 ELSE 0]
    /\ pc = [t \in Threads |-> "idle"]
    /\ layout = [t \in Threads |-> NoLayout]
    /\ loc = [t \in Threads |-> NoLoc]
    /\ result = [t \in Threads |-> NoResult]
    /\ nreq = 0
    /\ granted = <<>>
    /\ deallocs = 0
    /\ retries = [t \in Threads |-> 0]
    /\ stale = [t \in Threads |-> FALSE]
    /\ failed = {}
    /\ script = [t \in Threads |-> IF t <= n THEN s ELSE <<>>]
    /\ scenario = [name |-> name, n |-> n]

ScenarioInit ==
    \E b \in ScenarioAddrs :
        \/ ScenarioArena("A", 1, 8, b, ScriptA)
        \/ ScenarioArena("C", 1, 4, b, ScriptC)
        \/ \E n \in Threads : ScenarioArena("B", n, n * BytesPerThread, b, ScriptB)
        \/ \E n \in Threads : ScenarioArena("T", n, n * BytesPerThread, b, ScriptT)

\* the next allocate call of a scenario thread
ScriptedAllocate(t) ==
    /\ script[t] # <<>>
    /\ Begin(t, Head(script[t]))
    /\ script' = [script EXCEPT ![t] = Tail(@)]
    /\ UNCHANGED scenario

NextScenario ==
    \/ \E t \in Threads : ScriptedAllocate(t)
    \/ \E t \in Threads : Load(t)
    \/ \E t \in Threads : CompareExchange(t)

SpecScenario == ScenarioInit /\ [][NextScenario]_vars

(* --------------------------- full-width words -------------------------- *)

\* isize::MAX
IsizeMax == Pow2(WordBits - 1) - 1

\* size rounded up to the next multiple of align
RoundUp(size, align) == ((size + align - 1) \div align) * align

\* Layout::from_size_align: align is a power of two and size, rounded up
\* to a multiple of align, does not exceed isize::MAX
IsLayout(size, align) ==
    /\ align \in {Pow2(k) : k \in 0 .. (WordBits - 1)}
    /\ RoundUp(size, align) <= IsizeMax

\* the largest size of a Layout of alignment a
MaxSizeOf(a) == (IsizeMax \div a) * a

\* layouts of every alignment, with the smallest and the largest sizes
WordLayouts ==
    {l \in [size : 0 .. IsizeMax, align : {Pow2(k) : k \in 0 .. (WordBits - 1)}] :
        /\ IsLayout(l.size, l.align)
        /\ l.size \in {0, 1, MaxSizeOf(l.align) - 1, MaxSizeOf(l.align)}}

\* a boxed slice holds at most isize::MAX bytes: the smallest and the
\* largest capacities
WordCapacities == {0, 1, Pow2(WordBits - 2), IsizeMax - 1, IsizeMax}

\* pool addresses from the lowest to the highest that leave room for c
\* bytes below the end of the address space
WordAddrs(c) ==
    IF c = 0 THEN {DanglingAddr}
    ELSE {b \in {1, 2, IsizeMax, IsizeMax + 1, UsizeMax - c - 1, UsizeMax - c} :
             b >= 1 /\ b + c <= UsizeMax}

WordInit ==
    \E c \in WordCapacities : \E b \in WordAddrs(c) :
        ScenarioArena("word", NumThreads, c, b, <<>>)

WordAllocate(t) ==
    /\ nreq < WordRequests
    /\ \E l \in WordLayouts : Begin(t, l)
    /\ UNCHANGED <<script, scenario>>

NextWord ==
    \/ \E t \in Threads : WordAllocate(t)
    \/ \E t \in Threads : Load(t)
    \/ \E t \in Threads : CompareExchange(t)

SpecWord == WordInit /\ [][NextWord]_vars

(* ------------------------------ scheduling ----------------------------- *)

\* every thread owns a clone of the handle and issues requests of its choice
LiveInit ==
    \E c \in 0 .. MaxCapacity : \E b \in PoolAddrs(c) :
        ScenarioArena("live", NumThreads, c, b, <<>>)

NextLive ==
    \/ \E t \in Threads : Allocate(t)
    \/ \E t \in Threads : Load(t)
    \/ \E t \in Threads : CompareExchange(t)

\* the steps of the loop of thread t
LoopStep(t) == Load(t) \/ CompareExchange(t)

\* thread 1 keeps being scheduled; nothing is assumed of the other threads
SpecLive == LiveInit /\ [][NextLive]_vars /\ WF_vars(LoopStep(1))

\* every thread of the scenario has issued all its requests and returned
ScenarioDone ==
    \A t \in Threads : script[t] = <<>> /\ pc[t] = "idle"

(* ------------------------------- claims -------------------------------- *)

\* the byte indices of a granted range [start, end)
Bytes(g) == g.start .. (g.end - 1)

Grants == DOMAIN granted

\* thread t returns from a request in this step
Returns(t) == pc[t] # "idle" /\ pc'[t] = "idle"

ReturnsErr(t) == Returns(t) /\ result'[t].kind = "AllocError"

ReturnsOk(t) == Returns(t) /\ result'[t].kind = "Ok"

\* the ranges granted so far, in the order of their compare-exchanges
Ranges == [i \in Grants |-> <<granted[i].start, granted[i].end>>]

\* C1 (Disjointness): no two ranges returned by successful requests, from
\* whatever threads and handles, share a byte index.
C1_Disjoint ==
    \A i, j \in Grants :
        i # j => Bytes(granted[i]) \cap Bytes(granted[j]) = {}

\* two threads each hold a non-empty range of the same Arena
C1_Witness ==
    \E i, j \in Grants :
        /\ granted[i].thread # granted[j].thread
        /\ granted[i].size > 0
        /\ granted[j].size > 0

\* C2 (Boundedness): the cursor stays within 0 .. capacity, every granted
\* range lies within 0 .. capacity, and the unsigned subtraction of
\* available_space yields capacity - offset without underflow.
C2_Bounded ==
    /\ 0 <= offset /\ offset <= capacity
    /\ \A i \in Grants :
          /\ 0 <= granted[i].start
          /\ granted[i].start <= granted[i].end
          /\ granted[i].end <= capacity
    /\ available_space = capacity - offset

\* the pool is used up to its last byte and a later request was refused
C2_Witness ==
    /\ capacity > 0
    /\ offset = capacity
    /\ \E t \in Threads : result[t].kind = "AllocError"

\* C3 (Monotonicity): no step of any kind decreases the cursor, and a range
\* granted in a step contains no byte of a range granted before it.
C3_Monotonic ==
    [][/\ offset' >= offset
       /\ granted' # granted =>
             \A i \in Grants :
                 Bytes(granted[i]) \cap Bytes(granted'[Len(granted')]) = {}]_vars

\* two non-empty ranges were granted, a deallocate and a clone happened and
\* a request was refused
C3_Witness ==
    /\ Len(granted) >= 2
    /\ \A i \in Grants : granted[i].size > 0
    /\ deallocs >= 1
    /\ strong >= 2
    /\ \E t \in Threads : result[t].kind = "AllocError"

\* C4 (All-or-nothing): a step in which a request returns an error writes
\* neither the cursor nor the granted ranges and returns no range; the
\* cursor only changes in a step in which a request returns Ok, to the end
\* of the returned range; and a returned range has the requested size.
C4_AllOrNothing ==
    [][/\ \A t \in Threads :
             ReturnsErr(t) =>
                 /\ offset' = offset
                 /\ granted' = granted
                 /\ result'[t].start = 0 /\ result'[t].end = 0
       /\ \A t \in Threads :
             ReturnsOk(t) =>
                 /\ result'[t].end - result'[t].start = layout[t].size
                 /\ offset' = result'[t].end
       /\ offset' # offset => \E t \in Threads : ReturnsOk(t)]_vars

\* one request was refused after the other thread's request had been granted
C4_Witness ==
    \E t, u \in Threads :
        /\ result[t].kind = "AllocError"
        /\ result[u].kind = "Ok"
        /\ result[u].end > result[u].start
        /\ offset < capacity

\* C5 (deallocate is a no-op): a deallocate step leaves the cursor, the
\* capacity, the pool, the granted ranges, the handles and the release of
\* the pool unchanged, and after it every granted byte is still below the
\* cursor, where no request can be granted it.
C5_DeallocateNoOp ==
    [][deallocs' # deallocs =>
          /\ UNCHANGED <<capacity, base, offset, granted, released, strong,
                         handles, pc, layout, loc, result>>
          /\ \A i \in Grants : granted'[i].end <= offset']_vars

\* deallocate was called after a grant while another request is between
\* its load and its compare-exchange
C5_Witness ==
    /\ deallocs >= 1
    /\ \E i \in Grants : granted[i].size > 0
    /\ \E t \in Threads : pc[t] = "cas"

\* the smallest s >= from whose address base + s is a multiple of a
IsAlignedStart(s, from, a) ==
    /\ s >= from
    /\ (base + s) % a = 0
    /\ \A x \in from .. (s - 1) : (base + x) % a # 0

\* C6 as stated (Alignment and size): start is the smallest value >= the
\* cursor read in the winning attempt with start mod alignment = 0, and
\* end = start + size.
C6_Original ==
    \A i \in Grants :
        LET g == granted[i] IN
            /\ g.start >= g.seen
            /\ g.start % g.align = 0
            /\ \A x \in g.seen .. (g.start - 1) : x % g.align # 0
            /\ g.end = g.start + g.size

\* C6 amended: start is the smallest value >= the cursor read in the
\* winning attempt whose address base + start is a multiple of the
\* alignment, and end = start + size.
C6_AlignedAddress ==
    \A i \in Grants :
        LET g == granted[i] IN
            /\ IsAlignedStart(g.start, g.seen, g.align)
            /\ g.end = g.start + g.size

\* a range was granted after padding, in a pool whose address is not a
\* multiple of the alignment
C6_Witness ==
    \E i \in Grants :
        /\ granted[i].start > granted[i].seen
        /\ base % granted[i].align # 0
        /\ granted[i].size > 0

ScenarioARanges == <<<<0, 1>>, <<1, 2>>, <<4, 8>>>>

\* C7 as stated (Scenario A): the three requests return [0,1), [1,2) and
\* [4,8) and the request after them fails.
C7_Original ==
    (scenario.name = "A" /\ ScenarioDone) =>
        /\ Ranges = ScenarioARanges
        /\ result[1].kind = "AllocError"

\* C7 amended: when the address of the pool is a multiple of 4, the three
\* requests return [0,1), [1,2) and [4,8) and the request after them fails
\* with AllocError at the capacity check, the cursor staying at 8.
C7_ScenarioA ==
    (scenario.name = "A" /\ ScenarioDone /\ base % 4 = 0) =>
        /\ Ranges = ScenarioARanges
        /\ result[1] = Err(70)
        /\ offset = 8

\* Scenario A has run to its end in a pool at a multiple of 4
C7_Witness ==
    /\ scenario.name = "A"
    /\ ScenarioDone
    /\ base % 4 = 0
    /\ Len(granted) = 3

\* the padding of Scenario C: bytes from the pool's address to a multiple of 8
ScenarioCPad == (8 - (base % 8)) % 8

\* C8 as stated (Scenario C): the request fails and leaves the cursor at 0.
C8_Original ==
    (scenario.name = "C" /\ ScenarioDone) =>
        /\ result[1].kind = "AllocError"
        /\ offset = 0

\* C8 amended: with p the number of bytes from the pool's address to the
\* next multiple of 8, the request fails, with AllocError at the capacity
\* check and the cursor left at 0, exactly when p + 1 > 4; otherwise it
\* returns [p, p+1) and the cursor is p + 1.
C8_ScenarioC ==
    (scenario.name = "C" /\ ScenarioDone) =>
        IF ScenarioCPad + 1 > 4
        THEN result[1] = Err(70) /\ offset = 0 /\ granted = <<>>
        ELSE /\ result[1] = Ok(ScenarioCPad, ScenarioCPad + 1)
             /\ offset = ScenarioCPad + 1

\* Scenario C has run and its request was refused
C8_Witness ==
    /\ scenario.name = "C"
    /\ ScenarioDone
    /\ result[1].kind = "AllocError"

\* C9 as stated (Scenario B): once all threads have completed,
\* available_space() is 0.
C9_Original ==
    (scenario.name = "B" /\ ScenarioDone) => available_space = 0

\* C9 amended: once all N threads have completed, all 3 N requests were
\* granted and available_space() is between 0 and 3 N: the 9 N bytes less
\* the 6 N requested ones and at most 3 bytes of padding per 4-byte request.
C9_ScenarioB ==
    (scenario.name = "B" /\ ScenarioDone) =>
        /\ Len(granted) = 3 * scenario.n
        /\ 0 <= available_space
        /\ available_space <= 3 * scenario.n

\* Scenario B has run to its end with every thread of the model
C9_Witness ==
    /\ scenario.name = "B"
    /\ scenario.n = NumThreads
    /\ ScenarioDone
    /\ available_space > 0

\* C10 (Sufficiency of 9 bytes per thread): with N threads on a pool of
\* 9 N bytes, each requesting (2, align 1) and then (4, align 4), no
\* request fails, whatever the interleaving and the address of the pool.
C10_NineBytesSuffice ==
    scenario.name = "T" =>
        /\ \A t \in Threads : result[t].kind # "AllocError"
        /\ ScenarioDone => Len(granted) = 2 * scenario.n

\* the test has run to its end with every thread of the model, one of the
\* 4-byte requests having needed 3 bytes of padding
C10_Witness ==
    /\ scenario.name = "T"
    /\ scenario.n = NumThreads
    /\ ScenarioDone
    /\ \E i \in Grants : granted[i].start = granted[i].seen + 3

\* C11 (Exhaustion): once the cursor equals the capacity, no request is
\* granted any more, whatever its layout: no compare-exchange that finds
\* the cursor at the capacity returns a range.
C11_Exhausted ==
    [][offset = capacity => \A t \in Threads : ~ReturnsOk(t)]_vars

\* the cause of a failure of layout l at cursor value off, as the error
\* taxonomy names it: no aligned start within the remaining range
\* off .. capacity - 1, or an aligned start whose end passes the capacity
CauseAt(off, l) ==
    IF \E s \in off .. (capacity - 1) : (base + s) % l.align = 0
    THEN "OutOfSpace"
    ELSE "AlignmentUnsatisfiable"

\* the cause a returned error lets the caller tell: the two error returns
\* of the loop, lines 61 and 70, taken as the two causes
CauseTold(r) ==
    IF r.ret = 61 THEN "AlignmentUnsatisfiable" ELSE "OutOfSpace"

\* C12 (Error taxonomy): the error a failed request returns tells which of
\* the two conditions occurred: AlignmentUnsatisfiable exactly when no
\* aligned offset exists in the remaining range, OutOfSpace exactly when
\* one exists but start + size > capacity.
C12_Taxonomy ==
    [][\A t \in Threads :
          ReturnsErr(t) => CauseTold(result'[t]) = CauseAt(offset, layout[t])]_vars

\* C13 (Termination without blocking): a running request of thread 1 can
\* always take its next step, whatever the other threads do, and, as long
\* as thread 1 keeps being scheduled, it returns.
C13_Terminates ==
    /\ [](pc[1] # "idle" => ENABLED LoopStep(1))
    /\ (pc[1] # "idle") ~> (pc[1] = "idle")

\* thread 1 is going round the loop after another thread's request won
C13_Witness ==
    /\ scenario.name = "live"
    /\ pc[1] = "load"
    /\ retries[1] >= 1

\* the state of the atomic specification: the cursor, which threads have a
\* request pending, the layouts, the values returned and the ranges granted
Pending == [t \in Threads |-> pc[t] # "idle"]

atomicVars == <<offset, Pending, layout, result, granted>>

\* the call of a request in the atomic specification
AtomicCall(t) ==
    /\ ~Pending[t]
    /\ Pending' = [Pending EXCEPT ![t] = TRUE]
    /\ layout'[t].size \in 0 .. UsizeMax
    /\ layout'[t].align \in {Pow2(k) : k \in 0 .. WordBits}
    /\ \A u \in Threads \ {t} : layout'[u] = layout[u]
    /\ result' = [result EXCEPT ![t] = NoResult]
    /\ UNCHANGED <<offset, granted>>

\* a request taking effect in one indivisible step: read the cursor, pad it
\* to the next aligned address, add the size, then fail or move the cursor
\* to the end and return the range
AtomicRequest(t) ==
    /\ Pending[t]
    /\ Pending' = [Pending EXCEPT ![t] = FALSE]
    /\ layout' = [layout EXCEPT ![t] = NoLayout]
    /\ LET start == CHOOSE s \in offset .. (offset + layout[t].align) :
                        IsAlignedStart(s, offset, layout[t].align)
           end == start + layout[t].size
       IN  IF end > capacity
           THEN /\ result'[t].kind = "AllocError"
                /\ \A u \in Threads \ {t} : result'[u] = result[u]
                /\ UNCHANGED <<offset, granted>>
           ELSE /\ offset' = end
                /\ result' = [result EXCEPT ![t] = Ok(start, end)]
                /\ Len(granted') = Len(granted) + 1
                /\ SubSeq(granted', 1, Len(granted)) = granted
                /\ granted'[Len(granted')].start = start
                /\ granted'[Len(granted')].end = end
                /\ granted'[Len(granted')].thread = t

\* C14 (Linearizability on the cursor): every step of the load /
\* compare-exchange loop either leaves the state of the atomic
\* specification unchanged or is one of its steps: a call, or a request
\* taking effect at once on the cursor value of that moment (a successful
\* request at its compare-exchange, a failed one at its last load).
C14_Linearizable ==
    [][\E t \in Threads : AtomicCall(t) \/ AtomicRequest(t)]_atomicVars

\* a request is in its second attempt, its first one overtaken by a
\* request that was granted, and another request has failed
C14_Witness ==
    \E t, u \in Threads :
        /\ pc[t] = "cas"
        /\ retries[t] >= 1
        /\ result[u].kind = "AllocError"
        /\ granted # <<>>

\* the handles that exist
HandleCount == Cardinality({<<t, i>> \in Threads \X (1 .. MaxHandles) : i <= handles[t]})

\* C15 (Destruction exactly once): the pool is released at most once, it
\* is released exactly when no handle is left, the release happens in the
\* step that drops the last handle, and a clone or a drop of a handle
\* leaves the cursor, the capacity and the granted ranges unchanged.
C15_ReleasedOnce ==
    /\ [](/\ released <= 1
          /\ strong = HandleCount
          /\ released = 1 <=> HandleCount = 0)
    /\ [][/\ released' # released =>
                /\ HandleCount = 1
                /\ HandleCount' = 0
          /\ strong' # strong => UNCHANGED <<offset, capacity, base, granted>>]_vars

\* the pool was released after a clone of the handle had been used by the
\* second thread
C15_Witness ==
    /\ released = 1
    /\ \E i \in Grants : granted[i].thread = 2 /\ granted[i].size > 0
    /\ \E i \in Grants : granted[i].thread = 1

\* the values the cursor has held
CursorValues == {0} \cup {granted[i].end : i \in Grants}

\* C16 (CAS retry discipline): the compare-exchange of an attempt fails,
\* and the attempt goes back to the load, exactly when another request's
\* successful compare-exchange has changed the cursor since the attempt's
\* load; an attempt at its compare-exchange holds the cursor value loaded
\* in this attempt and the start and end computed from it; and a change of
\* the cursor never brings back a value it has held before.
C16_RetryDiscipline ==
    /\ [](\A t \in Threads :
             pc[t] = "cas" =>
                 /\ IsAlignedStart(loc[t].start, loc[t].offset, layout[t].align)
                 /\ loc[t].end = loc[t].start + layout[t].size
                 /\ stale[t] <=> offset # loc[t].offset)
    /\ [][/\ \A t \in Threads :
                (pc[t] = "cas" /\ pc'[t] # "cas") =>
                    (pc'[t] = "load" <=> stale[t])
          /\ \A t \in Threads :
                (pc[t] = "load" /\ pc'[t] = "cas") => loc'[t].offset = offset
          /\ offset' # offset => offset' \notin CursorValues]_vars

\* an attempt that was already retried once is overtaken again
C16_Witness ==
    \E t \in Threads :
        /\ pc[t] = "cas"
        /\ retries[t] >= 1
        /\ stale[t]

\* C17 (Ordering of successful claims): in the order of their successful
\* compare-exchanges, a later range begins at or after the end of every
\* earlier one, and the cursor is the end of the range granted last, or 0
\* when none has been granted.
C17_Ordered ==
    /\ \A i, j \in Grants :
          i < j => granted[j].start >= granted[i].end
    /\ offset = IF granted = <<>> THEN 0 ELSE granted[Len(granted)].end

\* a thread's range lies between two ranges of the other thread, after
\* padding
C17_Witness ==
    /\ Len(granted) >= 3
    /\ granted[1].thread # granted[2].thread
    /\ granted[2].thread # granted[3].thread
    /\ granted[1].size > 0
    /\ granted[2].start > granted[1].end

\* a request of layout l has failed before with the same alignment and a
\* size not larger
FailedBefore(l) ==
    \E f \in failed : f.align = l.align /\ f.size <= l.size

\* C18 (Failure is permanent per layout): once a request of layout (s, a)
\* has failed, no request of alignment a and a size >= s is granted a
\* range any more; this covers every request that starts after the failure.
C18_FailurePermanent ==
    [][\A t \in Threads : ReturnsOk(t) => ~FailedBefore(layout[t])]_vars

\* a request loads the cursor after a request of the same alignment and a
\* size not larger has failed, while bytes of the pool remain
C18_Witness ==
    \E t \in Threads :
        /\ pc[t] = "load"
        /\ FailedBefore(layout[t])
        /\ retries[t] = 0
        /\ offset < capacity
        /\ granted # <<>>

\* the sum offset + padding + size of a load of layout l at cursor off,
\* in unbounded integers
EndSum(off, l) == off + align_offset(base + off, l.align) + l.size

\* C19 (No arithmetic wraparound): with a capacity of at most isize::MAX
\* and layouts whose rounded size is at most isize::MAX, the sums
\* start = offset + padding and end = start + size of every load stay
\* within usize::MAX, so the values a request carries to its
\* compare-exchange are the unwrapped sums, no granted range has
\* end < start, and no grant ends below an earlier one.
C19_NoWrap ==
    /\ \A t \in Threads :
          pc[t] = "load" => EndSum(offset, layout[t]) <= UsizeMax
    /\ \A t \in Threads :
          pc[t] = "cas" =>
              /\ loc[t].start =
                    loc[t].offset + align_offset(base + loc[t].offset, layout[t].align)
              /\ loc[t].end = loc[t].start + layout[t].size
    /\ \A i \in Grants :
          /\ granted[i].seen <= granted[i].start
          /\ granted[i].start <= granted[i].end
          /\ granted[i].end = granted[i].start + granted[i].size
    /\ \A i, j \in Grants : i < j => granted[i].end <= granted[j].end

\* a load at a full pool of isize::MAX bytes whose sum is the largest the
\* layouts allow, usize::MAX - 1
C19_Witness ==
    \E t \in Threads :
        /\ scenario.name = "word"
        /\ pc[t] = "load"
        /\ capacity = IsizeMax
        /\ offset = capacity
        /\ EndSum(offset, layout[t]) = UsizeMax - 1

\* C20 (Retry bound): the failed compare-exchanges of one request never
\* number more than the capacity of the Arena.
C20_RetryBound ==
    \A t \in Threads : retries[t] <= capacity

\* a request has failed its compare-exchange as many times as the pool has
\* bytes, more than once
C20_Witness ==
    \E t \in Threads :
        /\ capacity >= 2
        /\ retries[t] = capacity
        /\ pc[t] # "idle"

TypeOK ==
    /\ capacity \in Nat
    /\ offset \in 0 .. UsizeMax
    /\ pc \in [Threads -> {"idle", "load", "cas"}]

====
